---- MODULE Spec2Model ----
(***************************************************************************)
(* Buriram GP circuit simulator: the orchestration layer (src/app.js) and  *)
(* the two RideEngine variants of ride3d.js that are kept in               *)
(* src/directives/app-architecture.md (first variant: lines 110-907,       *)
(* second variant: lines 909-1342).                                        *)
(*                                                                         *)
(* Number representation.  JavaScript numbers are modelled in fixed point: *)
(*   speed, position, trackLength : hundredths of a world unit             *)
(*   lateral offset x             : millionths                             *)
(*   curvature                    : thousandths                            *)
(* so ACCELERATION = 3.5 is 350, MAX_SPEED = 440 is 44000, the road edge   *)
(* 1.0 is 1000000.  A product with a fractional factor (OFFROAD_DECEL,     *)
(* speed / MAX_SPEED) is rounded toward zero to the unit.  null is 0 for   *)
(* corner numbers and engine references.                                   *)
(***************************************************************************)
EXTENDS Integers, Sequences, FiniteSets, TLC

\* ------------------------------------------------------------------------
\* Bounds of the model
\* ------------------------------------------------------------------------
MaxEngines == 2      \* RideEngine instances that may be requested
MaxFrames == 3       \* display refreshes explored by the page specification
MaxTicks == 2        \* refreshes explored from a checkpoint by the tick specification
MaxLaps == 1         \* laps after which the lap specification stops
CruiseLevels == 4    \* cruise speeds tried by the lap driver
MaxTimeouts == 2     \* quiz setTimeout callbacks that may be pending at once
MaxLapFrames == 450  \* refreshes explored by the autopilot-lap specification
MaxRenders == 2      \* refreshes explored by the render specification

\* ------------------------------------------------------------------------
\* Small helpers
\* ------------------------------------------------------------------------
Min(a, b) == IF a < b THEN a ELSE b

Max(a, b) == IF a > b THEN a ELSE b

Abs(a) == IF a < 0 THEN -a ELSE a

Sign(a) == IF a < 0 THEN -1 ELSE IF a > 0 THEN 1 ELSE 0

\* ------------------------------------------------------------------------
\* Engine constants (v = 1: first variant, v = 2: second variant)
\* ------------------------------------------------------------------------
SEGMENT_LENGTH == 20000

RUMBLE_LENGTH == 3

MAX_SPEED(v) == IF v = 1 THEN 44000 ELSE 45000

ACCELERATION(v) == IF v = 1 THEN 350 ELSE 320

BRAKING(v) == IF v = 1 THEN 900 ELSE 1200

DECEL(v) == IF v = 1 THEN 200 ELSE 250

\* CENTRIFUGAL in hundredths: 0.3 and 0.35
CENTRIFUGAL(v) == IF v = 1 THEN 30 ELSE 35

\* OFFROAD_DECEL in hundredths: 0.99 and 0.96
OFFROAD_DECEL(v) == IF v = 1 THEN 99 ELSE 96

\* the 12 corners of CORNERS_DATA, keyed by 1-based corner number
NumCorners == 12

\* CORNERS_DATA of app.js, the fields the ride uses: corners[k - 1] of the
\* code is CORNERS_DATA[k] here
CORNERS_DATA ==
  << [ id |-> 1, number |-> 1, direction |-> "right" ],
     [ id |-> 2, number |-> 2, direction |-> "left" ],
     [ id |-> 3, number |-> 3, direction |-> "right" ],
     [ id |-> 4, number |-> 4, direction |-> "left" ],
     [ id |-> 5, number |-> 5, direction |-> "right" ],
     [ id |-> 6, number |-> 6, direction |-> "left" ],
     [ id |-> 7, number |-> 7, direction |-> "right" ],
     [ id |-> 8, number |-> 8, direction |-> "left" ],
     [ id |-> 9, number |-> 9, direction |-> "right" ],
     [ id |-> 10, number |-> 10, direction |-> "left" ],
     [ id |-> 11, number |-> 11, direction |-> "right" ],
     [ id |-> 12, number |-> 12, direction |-> "left" ] >>

\* what an out-of-range array read yields
Undefined == [ id |-> 0, number |-> 0, direction |-> "undefined" ]

\* a lookup that forgets the array is 0-based: corners[currentCorner]
HudLookupOffByOne(corners, currentCorner) ==
  IF currentCorner + 1 \in DOMAIN corners THEN corners[currentCorner + 1]
  ELSE Undefined

\* drawHUD / render: corners[state.currentCorner - 1], read only when
\* currentCorner is truthy
HudLookup(corners, currentCorner) ==
  IF currentCorner \in DOMAIN corners THEN corners[currentCorner]
  ELSE Undefined

\* ------------------------------------------------------------------------
\* Track model
\* ------------------------------------------------------------------------
\* first variant: the addSegments(count, curve, cornerIndex) calls of
\* buildTrack, in order, as <<count, curve, cornerIndex>>
TrackCalls1 ==
  << <<20, 0, 0>>, <<8, 500, 1>>, <<12, 2500, 1>>, <<8, 1000, 1>>,
     <<15, 0, 0>>, <<5, -800, 2>>, <<8, -1500, 2>>, <<5, -800, 2>>,
     <<55, 0, 0>>,
     <<5, 300, 3>>, <<10, 3500, 3>>, <<8, 2000, 3>>, <<5, 500, 3>>,
     <<4, -500, 4>>, <<8, -2500, 4>>, <<4, -800, 4>>,
     <<18, 0, 0>>, <<5, 500, 5>>, <<10, 2800, 5>>, <<6, 1000, 5>>,
     <<10, 0, 0>>, <<6, -400, 6>>, <<15, -1200, 6>>, <<6, -400, 6>>,
     <<12, 0, 0>>, <<5, 400, 7>>, <<10, 1800, 7>>, <<5, 400, 7>>,
     <<8, 0, 0>>, <<5, -300, 8>>, <<18, -1000, 8>>, <<5, -300, 8>>,
     <<10, 0, 0>>, <<5, 500, 9>>, <<12, 2200, 9>>, <<5, 500, 9>>,
     <<6, 0, 0>>, <<4, -500, 10>>, <<10, -2000, 10>>, <<4, -500, 10>>,
     <<18, 0, 0>>, <<5, 400, 11>>, <<12, 1500, 11>>, <<5, 400, 11>>,
     <<20, 0, 0>>, <<5, -400, 12>>, <<12, -2800, 12>>, <<5, -400, 12>>,
     <<12, 0, 0>> >>

\* second variant: TRACK_ZONES as <<len, curve, id>> (a straight has
\* curve 0 and id 0)
TRACK_ZONES ==
  << <<50, 0, 0>>, <<35, 1600, 1>>, <<20, 0, 0>>, <<25, -200, 2>>,
     <<140, 0, 0>>, <<45, 2100, 3>>, <<15, 0, 0>>, <<30, -1200, 4>>,
     <<20, 0, 0>>, <<35, 1300, 5>>, <<10, 0, 0>>, <<40, -900, 6>>,
     <<25, 0, 0>>, <<30, 800, 7>>, <<15, 0, 0>>, <<45, -700, 8>>,
     <<15, 0, 0>>, <<30, 1500, 9>>, <<5, 0, 0>>, <<30, -1400, 10>>,
     <<35, 0, 0>>, <<30, 900, 11>>, <<20, 0, 0>>, <<40, -1800, 12>>,
     <<20, 0, 0>> >>

\* number of segments pushed by the first k entries of a run list
RECURSIVE CountBefore(_, _)
CountBefore(runs, k) ==
  IF k = 0 THEN 0 ELSE CountBefore(runs, k - 1) + runs[k][1]

\* the entry that index i falls in when the run list is read from its end
RunOfBackward(runs, i) ==
  CHOOSE k \in 1..Len(runs) :
    LET j == CountBefore(runs, Len(runs)) - 1 - i
    IN  CountBefore(runs, k - 1) <= j /\ j < CountBefore(runs, k)

\* the entry of a run list that 0-based segment index i falls in
RunOf(runs, i) ==
  CHOOSE k \in 1..Len(runs) :
    CountBefore(runs, k - 1) <= i /\ i < CountBefore(runs, k)

\* colour band of the segment pushed with 0-based index i: the code
\* evaluates floor(id / RUMBLE_LENGTH) % 2 after id++ has run
ColorOf(i) == ((i + 1) \div RUMBLE_LENGTH) % 2

\* zone.curve * Math.sin(t * Math.PI) with t = i / len, in thousandths.
\* The sine is Bhaskara's rational form 16 t (1 - t) / (5 - 4 t (1 - t)),
\* exact at t = 0, 1/6, 1/2, 5/6 and within 0.002 elsewhere; the product
\* is rounded toward zero.
SinCurve(curve, i, len) ==
  LET p == i * (len - i)
  IN  Sign(curve) * ((Abs(curve) * 16 * p) \div (5 * len * len - 4 * p))

\* first variant buildTrack: segments[i + 1] is the segment with index i
BuildTrack1 ==
  [ n \in 1..CountBefore(TrackCalls1, Len(TrackCalls1)) |->
      LET r == TrackCalls1[RunOf(TrackCalls1, n - 1)]
      IN  [ index |-> n - 1, curve |-> r[2], cornerIndex |-> r[3],
            color |-> ColorOf(n - 1) ] ]

\* second variant buildTrack
BuildTrack2 ==
  [ n \in 1..CountBefore(TRACK_ZONES, Len(TRACK_ZONES)) |->
      LET k == RunOf(TRACK_ZONES, n - 1)
          z == TRACK_ZONES[k]
          i == (n - 1) - CountBefore(TRACK_ZONES, k - 1)
      IN  [ index |-> n - 1,
            curve |-> IF z[3] # 0 THEN SinCurve(z[2], i, z[1]) ELSE 0,
            cornerIndex |-> z[3],
            color |-> ColorOf(n - 1) ] ]

buildTrack(v) == IF v = 1 THEN BuildTrack1 ELSE BuildTrack2

\* ------------------------------------------------------------------------
\* Roadside objects.  Offsets are in thousandths.
\* ------------------------------------------------------------------------
\* outcomes of a Math.random() call, in thousandths; within one build of
\* the second variant's track every call is taken to return the same one
RandomDraws == {250, 750}

\* an objLeft / objRight that was never assigned
NoObject == [ type |-> "none", offset |-> 0 ]

\* first variant buildScenery: the lists it walks, as 0-based indices
PalmPositions ==
  {5, 10, 14, 19, 60, 65, 70, 100, 110, 120, 140, 150, 160, 175, 185, 195,
   210, 220, 240, 250, 260}

GrandstandSegs(totalSegs) ==
  {20, 21, 22, 23, 24, totalSegs - 8, totalSegs - 7, totalSegs - 6}

BarrierSegs == {38, 39, 40, 41, 96, 97, 98, 99, 180, 181, 182, 183}

\* first variant buildScenery: objLeft and objRight of the segment with
\* 0-based index i after the three passes, a later pass overwriting an
\* earlier one
Scenery1(i, totalSegs) ==
  LET palm == i \in PalmPositions /\ i < totalSegs
      stand == i \in GrandstandSegs(totalSegs) /\ i < totalSegs /\ i >= 0
      barrier == i \in BarrierSegs /\ i < totalSegs
  IN  << IF barrier THEN [ type |-> "barrier", offset |-> -1050 ]
         ELSE IF stand THEN [ type |-> "grandstand", offset |-> -2200 ]
         ELSE IF palm THEN [ type |-> "palm", offset |-> -1500 ]
         ELSE NoObject,
         IF barrier THEN [ type |-> "barrier", offset |-> 1050 ]
         ELSE IF palm THEN [ type |-> "palm", offset |-> 1500 ]
         ELSE NoObject >>

\* second variant buildTrack, "Populate objects": seg.objects of the
\* segment with 0-based index i, in push order; id is the number of
\* segments and r what Math.random() returned
Objects2(i, cornerIndex, id, r) ==
  LET trees == IF i % 8 = 0
               THEN << [ type |-> "tree",
                         offset |-> (IF r > 500 THEN 1800 ELSE -1800)
                                      + ((r * 500) \div 1000) ] >>
               ELSE << >>
      stands == IF (i < 60 \/ (i > 250 /\ i < 350) \/ i > id - 100) /\ i % 15 = 0
                THEN << [ type |-> "grandstand", offset |-> -2500 ] >>
                ELSE << >>
      boards == IF cornerIndex # 0 /\ i % 10 = 0
                THEN << [ type |-> "sponsor", offset |-> 1300 ] >>
                ELSE << >>
  IN  trees \o stands \o boards

\* the roadside object lists of a built track, one per segment: first
\* variant after buildScenery, second after buildTrack with draw r
Scenery(v, r) ==
  IF v = 1
  THEN [ n \in 1..Len(BuildTrack1) |-> Scenery1(n - 1, Len(BuildTrack1)) ]
  ELSE [ n \in 1..Len(BuildTrack2) |->
           Objects2(n - 1, BuildTrack2[n].cornerIndex, Len(BuildTrack2), r) ]

\* this.segments[Math.floor(position / SEGMENT_LENGTH) % this.segments.length]
\* (segs is 1-based here); only applied to a non-empty segs
SegAt(segs, position) == segs[((position \div SEGMENT_LENGTH) % Len(segs)) + 1]

\* ------------------------------------------------------------------------
\* Vehicle state and input
\* ------------------------------------------------------------------------
\* a * num / den rounded toward zero (num >= 0, den > 0)
Scale(a, num, den) == Sign(a) * ((Abs(a) * num) \div den)

\* first variant createState(); the second variant's constructor builds
\* the same fields without showHints / hintTimer, which it never reads
createState(v) ==
  [ position |-> 0, speed |-> 0, x |-> 0, currentCorner |-> 0,
    showHints |-> (v = 1), demo |-> FALSE, trackLength |-> 0,
    hintTimer |-> IF v = 1 THEN 300 ELSE 0 ]

\* an autopilot whose target speed is a standstill
TargetSpeedStandstill(curve) == 0

\* first variant demoAI: target speed from the corner severity
TargetSpeed1(curve) ==
  IF curve = 0 THEN (MAX_SPEED(1) * 90) \div 100
  ELSE IF Abs(curve) > 2500 THEN (MAX_SPEED(1) * 22) \div 100
  ELSE IF Abs(curve) > 1500 THEN (MAX_SPEED(1) * 38) \div 100
  ELSE IF Abs(curve) > 500 THEN (MAX_SPEED(1) * 55) \div 100
  ELSE (MAX_SPEED(1) * 75) \div 100

\* an autopilot that presses the keys it wants and releases none
DemoKeysPressOnly(s, curve, keys) ==
  LET targetSpeed == TargetSpeed1(curve)
      k1 == IF s.speed < targetSpeed THEN keys \cup {"ArrowUp"}
            ELSE IF s.speed - targetSpeed > 5000 THEN keys \cup {"ArrowDown"}
            ELSE keys
      targetX == -(curve * 500)
  IN  IF s.x < targetX - 50000 THEN k1 \cup {"ArrowRight"}
      ELSE IF s.x > targetX + 50000 THEN k1 \cup {"ArrowLeft"}
      ELSE k1

\* first variant demoAI on a segment of the given curve: the input map
\* after the synthesized key presses
DemoKeys1(s, curve, keys) ==
  LET targetSpeed == TargetSpeed1(curve)
      k1 == IF s.speed < targetSpeed
            THEN (keys \cup {"ArrowUp"}) \ {"ArrowDown"}
            ELSE IF s.speed - targetSpeed > 5000
                 THEN (keys \ {"ArrowUp"}) \cup {"ArrowDown"}
                 ELSE keys \ {"ArrowUp", "ArrowDown"}
      targetX == -(curve * 500)
  IN  IF s.x < targetX - 50000
      THEN (k1 \cup {"ArrowRight"}) \ {"ArrowLeft"}
      ELSE IF s.x > targetX + 50000
           THEN (k1 \cup {"ArrowLeft"}) \ {"ArrowRight"}
           ELSE k1 \ {"ArrowLeft", "ArrowRight"}

\* first variant demoAI
demoAI(s, segs, keys) == DemoKeys1(s, SegAt(segs, s.position).curve, keys)

\* first variant, "Physics": the speed after the three key tests
Longitudinal1(speed, keys) ==
  LET a == IF "ArrowUp" \in keys
           THEN Min(speed + ACCELERATION(1), MAX_SPEED(1)) ELSE speed
      b == IF "ArrowDown" \in keys THEN Max(a - BRAKING(1), 0) ELSE a
  IN  IF "ArrowUp" \notin keys /\ "ArrowDown" \notin keys
      THEN Max(b - DECEL(1), 0) ELSE b

\* first variant, "Steering": x after the two clamped steering steps
Steering1(x, speed, keys) ==
  LET steerAmt == Scale(speed, 4000, MAX_SPEED(1))
      a == IF "ArrowLeft" \in keys THEN Max(x - steerAmt, -2500000) ELSE x
  IN  IF "ArrowRight" \in keys THEN Min(a + steerAmt, 2500000) ELSE a

\* curve * CENTRIFUGAL * (speed / MAX_SPEED) * 0.01, in millionths
CentrifugalPush(v, curve, speed) ==
  Scale(Sign(curve) * speed, (Abs(curve) * CENTRIFUGAL(v)) \div 10, MAX_SPEED(v))

\* an off-road test that never applies the penalty
OffRoadNever(v, x, speed) == speed

\* if (Math.abs(s.x) > 1.0) s.speed *= OFFROAD_DECEL
OffRoad(v, x, speed) ==
  IF Abs(x) > 1000000 THEN Scale(speed, OFFROAD_DECEL(v), 100) ELSE speed

\* first variant "Advance position": lap is the test position >= trackLength
LapTest1(position, trackLength) == position >= trackLength

\* second variant: if (s.position > s.trackLength)
LapTest2(position, trackLength) == position > trackLength

\* a level-triggered corner detection: the handler is called on every tick
\* spent inside a corner zone
CornerEventLevel(prevCorner, currentCorner, hasHandler) ==
  IF currentCorner # 0 /\ hasHandler THEN currentCorner ELSE 0

\* a corner detection that also fires when a corner is left for a straight,
\* reporting the corner just left
CornerEventAnyChange(prevCorner, currentCorner, hasHandler) ==
  IF currentCorner # prevCorner /\ hasHandler
  THEN (IF currentCorner # 0 THEN currentCorner ELSE prevCorner)
  ELSE 0

\* first variant "Corner detection": the corner number handed to
\* onCornerEntered in this tick, 0 when the handler is not invoked
CornerEvent1(prevCorner, currentCorner, hasHandler) ==
  IF currentCorner # prevCorner /\ currentCorner # 0 /\ hasHandler
  THEN currentCorner ELSE 0

\* the result of an update that threw before it finished
Thrown(s, keys) ==
  [ st |-> s, keys |-> keys, threw |-> TRUE, lap |-> FALSE, lapCalls |-> 0,
    cornerCall |-> 0, longSpeed |-> s.speed, advanced |-> s.position ]

\* first variant _update from "Centrifugal drift" to the end, for the
\* segment seg under the vehicle; longSpeed and x1 are the speed and x
\* that "Physics" and "Steering" left
Advance1(s, keys, longSpeed, x1, seg, hasLap, hasCorner) ==
  LET x2 == x1 - CentrifugalPush(1, seg.curve, longSpeed)
      speed == OffRoad(1, x2, longSpeed)
      advanced == s.position + speed
      lap == LapTest1(advanced, s.trackLength)
      p1 == IF lap THEN advanced - s.trackLength ELSE advanced
      timer == IF s.hintTimer > 0 THEN s.hintTimer - 1 ELSE s.hintTimer
  IN  [ st |-> [ position |-> Max(p1, 0), speed |-> speed, x |-> x2,
                 currentCorner |-> seg.cornerIndex,
                 showHints |-> IF s.hintTimer > 0 THEN s.showHints ELSE FALSE,
                 demo |-> s.demo, trackLength |-> s.trackLength,
                 hintTimer |-> timer ],
        keys |-> keys, threw |-> FALSE, lap |-> lap,
        lapCalls |-> IF lap /\ hasLap THEN 1 ELSE 0,
        cornerCall |-> CornerEvent1(s.currentCorner, seg.cornerIndex, hasCorner),
        longSpeed |-> longSpeed, advanced |-> advanced ]

\* first variant _update from "Physics" on, with the input map keys that
\* the autopilot, if enabled, has left.  With no segments the lookup
\* yields undefined and seg.curve throws.
Physics1(s, keys, segs, hasLap, hasCorner) ==
  LET longSpeed == Longitudinal1(s.speed, keys)
      x1 == Steering1(s.x, longSpeed, keys)
  IN  IF segs = << >>
      THEN Thrown([s EXCEPT !.speed = longSpeed, !.x = x1], keys)
      ELSE Advance1(s, keys, longSpeed, x1, SegAt(segs, s.position),
                    hasLap, hasCorner)

\* first variant RideEngine._update.  hasLap / hasCorner: onLapComplete /
\* onCornerEntered hold a handler.  With no segments demoAI reads
\* seg.curve of undefined and throws.
Update1(s, keys0, segs, hasLap, hasCorner) ==
  IF segs = << >> /\ s.demo THEN Thrown(s, keys0)
  ELSE Physics1(s, IF s.demo THEN demoAI(s, segs, keys0) ELSE keys0, segs,
                hasLap, hasCorner)

\* second variant, "Human controls": the speed after the if / else-if chain
Longitudinal2(speed, keys) ==
  IF "ArrowUp" \in keys THEN Min(speed + ACCELERATION(2), MAX_SPEED(2))
  ELSE IF "ArrowDown" \in keys THEN Max(speed - BRAKING(2), 0)
  ELSE Max(speed - DECEL(2), 0)

\* second variant, "Human controls": unclamped steering
Steering2(x, speed, keys) ==
  LET steer == Scale(speed, 5000, MAX_SPEED(2))
      a == IF "ArrowLeft" \in keys THEN x - steer ELSE x
  IN  IF "ArrowRight" \in keys THEN a + steer ELSE a

\* second variant, "Demo AI": x after the two tests against targetX
DemoSteer2(x, curve) ==
  LET targetX == -(curve * 400)
      a == IF x < targetX THEN x + 50000 ELSE x
  IN  IF a > targetX THEN a - 50000 ELSE a

\* second variant, "Demo AI": targetSpeed from curveLimit = |seg.curve|
TargetSpeed2(curve) == IF Abs(curve) > 1000 THEN 12000 ELSE MAX_SPEED(2)

\* second variant, "Demo AI": speed after the target-speed test
DemoSpeed2(speed, curve) ==
  LET targetSpeed == TargetSpeed2(curve)
  IN  IF speed < targetSpeed THEN speed + ACCELERATION(2)
      ELSE speed - BRAKING(2)

\* window.App && window.App.onLapComplete: app.js declares App with const
\* (no property of window) and gives it no onLapComplete field
WindowAppOnLapComplete == FALSE

\* second variant update from "Physics logic" to the end, for the segment
\* currSeg under the vehicle; longSpeed and x1 are the speed and x that
\* the controls left
Advance2(s, keys, longSpeed, x1, currSeg) ==
  LET x2 == x1 - CentrifugalPush(2, currSeg.curve, longSpeed)
      speed == OffRoad(2, x2, longSpeed)
      advanced == s.position + speed
      lap == LapTest2(advanced, s.trackLength)
  IN  [ st |-> [ s EXCEPT !.position = IF lap THEN advanced - s.trackLength
                                       ELSE advanced,
                          !.speed = speed, !.x = x2,
                          !.currentCorner = currSeg.cornerIndex ],
        keys |-> keys, threw |-> FALSE, lap |-> lap,
        lapCalls |-> IF lap /\ WindowAppOnLapComplete THEN 1 ELSE 0,
        cornerCall |-> 0, longSpeed |-> longSpeed, advanced |-> advanced ]

\* second variant update, controls: the autopilot or the keys, then the
\* rest with the speed they left
Controls2(s, keys, longSpeed, currSeg) ==
  Advance2(s, keys, longSpeed,
           IF s.demo THEN DemoSteer2(s.x, currSeg.curve)
           ELSE Steering2(s.x, longSpeed, keys),
           currSeg)

\* second variant RideEngine.update.  With no segments the lookup yields
\* undefined: seg.curve (autopilot) or currSeg.curve throws.
Update2(s, keys, segs) ==
  IF segs = << >>
  THEN IF s.demo THEN Thrown(s, keys)
       ELSE LET sp == Longitudinal2(s.speed, keys)
            IN  Thrown([s EXCEPT !.speed = sp, !.x = Steering2(s.x, sp, keys)], keys)
  ELSE Controls2(s, keys,
                 IF s.demo
                 THEN DemoSpeed2(s.speed, SegAt(segs, s.position).curve)
                 ELSE Longitudinal2(s.speed, keys),
                 SegAt(segs, s.position))

\* the update of the loaded variant
Update(v, s, keys, segs, hasLap, hasCorner) ==
  IF v = 1 THEN Update1(s, keys, segs, hasLap, hasCorner)
  ELSE Update2(s, keys, segs)

\* ------------------------------------------------------------------------
\* Rendering.  A render pass is the sequence of the draw commands it
\* issues; a command records its kind, the distance index of the pair it
\* paints (0 for the background and the HUD) and the screen-Y of the
\* pair's nearer and farther projection.
\* ------------------------------------------------------------------------
DRAW_DISTANCE(v) == IF v = 1 THEN 200 ELSE 300

\* values of canvas.height the page can give the ride
CanvasHeights == {0, 1, 600}

\* yPos (first variant) and screenY (second variant) of projection i on a
\* canvas of height H: H/2 + H/2 * (1 - i / DRAW_DISTANCE), in units of
\* 1 / (2 * DRAW_DISTANCE) of a pixel, so that the value is exact
ScreenYFlat(v, i, H) == H * DRAW_DISTANCE(v)

ScreenY(v, i, H) == H * (2 * DRAW_DISTANCE(v) - i)

\* H / 2 and H in the units of ScreenY
Horizon(v, H) == H * DRAW_DISTANCE(v)

CanvasBottom(v, H) == H * 2 * DRAW_DISTANCE(v)

\* the "continue" of the painting loop for pair i (p1 = proj[i], the
\* farther projection, and proj[i - 1], the nearer one)
PairSkipped(v, i, H) ==
  IF v = 1
  THEN ScreenY(v, i, H) < 0 \/ ScreenY(v, i - 1, H) > CanvasBottom(v, H)
  ELSE ScreenY(v, i, H) < Horizon(v, H)

\* a draw command of pair i
PairCommand(v, kind, i, H) ==
  [ kind |-> kind, pair |-> i, near |-> ScreenY(v, i - 1, H),
    far |-> ScreenY(v, i, H) ]

\* a draw command outside the painting loop
ScreenCommand(kind) == [ kind |-> kind, pair |-> 0, near |-> 0, far |-> 0 ]

\* the body of the painting loop for pair i: seg is proj[i].seg and objs
\* its roadside objects (objLeft and objRight, or seg.objects; the images
\* of the second variant are taken as loaded); fogRatio = i / DRAW_DISTANCE is compared with
\* 0.45 (first variant) or 0.4 (second variant)
PaintPair(v, i, seg, objs, H) ==
  LET cmd(kind) == << PairCommand(v, kind, i, H) >>
      dash == IF seg.color = 0 THEN cmd("dash") ELSE << >>
      present == SelectSeq(objs, LAMBDA o : o.type # "none")
      things == [ k \in 1..Len(present) |-> PairCommand(v, "object", i, H) ]
  IN  IF PairSkipped(v, i, H) THEN << >>
      ELSE IF v = 1
      THEN cmd("grass") \o cmd("rumble") \o cmd("road") \o dash
             \o (IF i * 100 > 45 * DRAW_DISTANCE(v) THEN cmd("fog") ELSE << >>)
             \o things
      ELSE cmd("grass") \o cmd("rumble") \o cmd("road") \o dash
             \o cmd("noise") \o things
             \o (IF i * 10 > 4 * DRAW_DISTANCE(v) THEN cmd("fog") ELSE << >>)

\* the segment that projection i shows: segs[(startIndex + i) % total]
ProjectedIndex(segs, position, i) ==
  ((((position \div SEGMENT_LENGTH) % Len(segs)) + i) % Len(segs)) + 1

\* a painting loop that runs from the nearest pair to the farthest
RECURSIVE PaintPairsNearFirst(_, _, _, _, _, _, _)
PaintPairsNearFirst(v, hi, lo, position, segs, scenery, H) ==
  IF hi < lo THEN << >>
  ELSE IF hi = lo
  THEN LET n == ProjectedIndex(segs, position, hi)
       IN  PaintPair(v, hi, segs[n], scenery[n], H)
  ELSE LET mid == (hi + lo) \div 2
       IN  PaintPairsNearFirst(v, mid, lo, position, segs, scenery, H)
             \o PaintPairsNearFirst(v, hi, mid + 1, position, segs, scenery, H)

\* the painting loop "for (i = hi; i >= lo; i--)": the commands of the
\* farther half of the pairs, then those of the nearer half (the loop is
\* split in two to keep the evaluation shallow)
RECURSIVE PaintPairs(_, _, _, _, _, _, _)
PaintPairs(v, hi, lo, position, segs, scenery, H) ==
  IF hi < lo THEN << >>
  ELSE IF hi = lo
  THEN LET n == ProjectedIndex(segs, position, hi)
       IN  PaintPair(v, hi, segs[n], scenery[n], H)
  ELSE LET mid == (hi + lo) \div 2
       IN  PaintPairs(v, hi, mid + 1, position, segs, scenery, H)
             \o PaintPairs(v, mid, lo, position, segs, scenery, H)

\* _render() / render() of an engine whose track is built: s is the
\* vehicle state and scenery the object lists of the segments
render(v, s, segs, scenery, H) ==
  (IF v = 1 THEN << ScreenCommand("background") >>
   ELSE << ScreenCommand("clear"), ScreenCommand("background") >>)
    \o PaintPairs(v, DRAW_DISTANCE(v) - 1, 1, s.position, segs, scenery, H)
    \o (IF v = 1 THEN << ScreenCommand("hud"), ScreenCommand("minimap") >>
        ELSE << ScreenCommand("dashboard") >>
               \o (IF s.currentCorner # 0 THEN << ScreenCommand("overlay") >>
                   ELSE << >>))

\* speedToGear(kmh) of the first variant
speedToGear(kmh) ==
  IF kmh < 60 THEN 1
  ELSE IF kmh < 110 THEN 2
  ELSE IF kmh < 160 THEN 3
  ELSE IF kmh < 210 THEN 4
  ELSE IF kmh < 270 THEN 5
  ELSE 6

\* drawHUD of the first variant: spdKmh = Math.round(Math.abs(speed) * 0.28)
\* for a speed in hundredths (Math.round rounds a half upward)
SpeedKmh(speed) == (Abs(speed) * 28 + 5000) \div 10000

\* drawHUD of the first variant: the gear shown for a speed
HudGear(speed) == speedToGear(SpeedKmh(speed))

\* drawSegment of the first variant, given the screen-Y of proj1 and proj2
\* and the colour band; the commands carry no distance index
drawSegment(y1, y2, color) ==
  LET cmd(kind) == << [ kind |-> kind, pair |-> 0, near |-> y1, far |-> y2 ] >>
  IN  IF y1 <= y2 THEN << >>
      ELSE cmd("grass") \o cmd("rumble") \o cmd("road")
             \o (IF color = 0 THEN cmd("dash") ELSE << >>)

\* ------------------------------------------------------------------------
\* State
\* ------------------------------------------------------------------------
VARIABLES
  variant,     \* which ride3d.js the page loaded: 1 or 2
  app,         \* the App object of app.js, plus the active map marker
  timers,      \* live setInterval / setTimeout registrations of app.js
  rafQueue,    \* pending requestAnimationFrame callbacks, oldest first
  batch,       \* callbacks of the refresh in progress still to run
  frames,      \* display refreshes so far
  eng,         \* the RideEngine instances created so far, in order
  obs,         \* observation: what the most recent update did
  cornerLog,   \* observation: per engine, corners handed to
               \* onCornerEntered since the last lap event
  lapsDone,    \* observation: per engine, lap events and the cornerLog
               \* at the most recent one
  plan         \* the rider of the lap specification (environment)

vars == << variant, app, timers, rafQueue, batch, frames, eng, obs,
           cornerLog, lapsDone, plan >>

Modes == {"explore", "ride", "walkthrough", "quiz"}

\* the page state that the handlers of app.js and the engines change
World ==
  [ app |-> app, timers |-> timers, rafQueue |-> rafQueue, eng |-> eng,
    obs |-> obs, cornerLog |-> cornerLog, lapsDone |-> lapsDone ]

Commit(w) ==
  \E x \in { w } :
    /\ app' = x.app
    /\ timers' = x.timers
    /\ rafQueue' = x.rafQueue
    /\ eng' = x.eng
    /\ obs' = x.obs
    /\ cornerLog' = x.cornerLog
    /\ lapsDone' = x.lapsDone

NoObs ==
  [ eng |-> 0, threw |-> FALSE, lap |-> FALSE, lapCalls |-> 0,
    cornerCall |-> 0, pre |-> createState(1), preKeys |-> {},
    longSpeed |-> 0, advanced |-> 0, hasCorner |-> FALSE,
    post |-> createState(1), preHuman |-> {}, reset |-> 0,
    rendered |-> FALSE, canvasHeight |-> 0, draw |-> << >>,
    segment |-> << >> ]

\* ------------------------------------------------------------------------
\* RideEngine
\* ------------------------------------------------------------------------
\* the keys the ride reads
Arrows == {"ArrowUp", "ArrowDown", "ArrowLeft", "ArrowRight"}

\* new RideEngine(): hasRaf is "rafId is not null" (first variant); human
\* is not a field of the code: it records the arrow keys whose latest
\* event from the keyboard was a keydown; rnd is what Math.random()
\* returned while the second variant built its track (0: not built);
\* passes is not a field of the code either: it counts the passes of the
\* loop that frame callbacks have completed in the refresh in progress
NewEngine(v) ==
  [ running |-> FALSE, listeners |-> 0, loading |-> FALSE, built |-> FALSE,
    st |-> createState(v), keys |-> {}, hasRaf |-> FALSE,
    onLapComplete |-> FALSE, onCornerEntered |-> FALSE, human |-> {},
    rnd |-> 0, passes |-> 0 ]

\* this.segments: [] until init has built the track
Segments(v, en) == IF en.built THEN buildTrack(v) ELSE << >>

\* this.segments.length * SEGMENT_LENGTH once the track is built
TrackLength(v) == Len(buildTrack(v)) * SEGMENT_LENGTH

\* an init that sets trackLength only before it replaces the state by a
\* fresh createState()
InitLosesLength(v, en) ==
  IF v = 1
  THEN [ en EXCEPT !.built = TRUE, !.st = createState(1), !.listeners = 1 ]
  ELSE [ en EXCEPT !.loading = TRUE ]

\* init(canvas, corners) up to its return.  First variant: synchronous;
\* the same bound listener pair is registered once however often init
\* runs.  Second variant: returns at "await loadAssets()", the rest runs
\* in InitResume.
init(v, en) ==
  IF v = 1
  THEN [ en EXCEPT !.built = TRUE,
                   !.st = [createState(1) EXCEPT !.trackLength = TrackLength(1)],
                   !.listeners = 1 ]
  ELSE [ en EXCEPT !.loading = TRUE ]

\* second variant init after the await: builds the track, Math.random()
\* returning r, and registers an anonymous keydown / keyup listener pair
InitResume(en, r) ==
  [ en EXCEPT !.loading = FALSE, !.built = TRUE, !.rnd = r,
              !.st = [ @ EXCEPT !.trackLength = TrackLength(2),
                                !.position = 0, !.speed = 0, !.x = 0 ],
              !.listeners = @ + 1 ]

\* requestAnimationFrame(() => this._loop()): the first variant keeps the
\* id in rafId, so only its newest callback is the one stop() can cancel
RequestFrame(w, e) ==
  IF variant = 1
  THEN [ w EXCEPT !.rafQueue =
                    Append([ i \in 1..Len(@) |->
                               IF @[i].eng = e THEN [ @[i] EXCEPT !.cur = FALSE ]
                               ELSE @[i] ],
                           [ kind |-> "loop", eng |-> e, cur |-> TRUE ]),
                  !.eng[e].hasRaf = TRUE ]
  ELSE [ w EXCEPT !.rafQueue =
                    Append(@, [ kind |-> "loop", eng |-> e, cur |-> FALSE ]) ]

\* the rest of a pass of _loop() / loop() once the update has returned r:
\* the handlers it invoked are recorded and the next frame is requested;
\* an update that throws ends the pass before anything is requested
LoopPass(w, e, en, r) ==
  LET log == IF r.lap THEN << >> ELSE w.cornerLog[e]
      w1 == [ w EXCEPT
                !.eng[e].st = r.st,
                !.eng[e].keys = r.keys,
                !.obs = [ eng |-> e, threw |-> r.threw, lap |-> r.lap,
                          lapCalls |-> r.lapCalls, cornerCall |-> r.cornerCall,
                          pre |-> en.st, preKeys |-> en.keys,
                          longSpeed |-> r.longSpeed, advanced |-> r.advanced,
                          hasCorner |-> en.onCornerEntered, post |-> r.st,
                          preHuman |-> en.human, reset |-> 0,
                          rendered |-> FALSE, canvasHeight |-> 0,
                          draw |-> << >>, segment |-> << >> ],
                !.cornerLog[e] = IF r.cornerCall # 0
                                 THEN Append(log, r.cornerCall) ELSE log,
                !.lapsDone[e] = IF r.lap
                                THEN [ count |-> @.count + 1,
                                       log |-> w.cornerLog[e] ]
                                ELSE @ ]
  IN  IF r.threw THEN w1 ELSE RequestFrame(w1, e)

\* the update of engine en
EngineUpdate(en) ==
  Update(variant, en.st, en.keys, Segments(variant, en),
         en.onLapComplete, en.onCornerEntered)

\* _loop() / loop()
Loop(w, e) ==
  IF ~w.eng[e].running THEN w
  ELSE CHOOSE w1 \in { LoopPass(w, e, w.eng[e], r) :
                         r \in { EngineUpdate(w.eng[e]) } } : TRUE

\* start()
start(w, e) ==
  Loop([ w EXCEPT !.eng[e].running = TRUE,
                  !.eng[e].st = IF variant = 1
                                THEN [ @ EXCEPT !.showHints = TRUE,
                                                !.hintTimer = 300 ]
                                ELSE @ ], e)

\* stop(): the first variant cancels rafId and removes its listeners, the
\* second only clears running
stop(w, e) ==
  IF variant = 1
  THEN [ w EXCEPT
           !.eng[e].running = FALSE,
           !.eng[e].listeners = 0,
           !.rafQueue = IF w.eng[e].hasRaf
                        THEN SelectSeq(@, LAMBDA c : ~(c.eng = e /\ c.cur))
                        ELSE @ ]
  ELSE [ w EXCEPT !.eng[e].running = FALSE ]

\* a reset that forgets to carry trackLength over to the fresh state
ResetForgetsTrack(w, e) == [ w EXCEPT !.eng[e].st = createState(1) ]

\* reset() (first variant)
reset(w, e) ==
  [ w EXCEPT !.eng[e].st =
               [ createState(1) EXCEPT !.trackLength = w.eng[e].st.trackLength ] ]

\* the engine's keydown listener(s): _onKeyDown / the anonymous listener
EngineKeyDown(en, k) ==
  IF en.listeners = 0 THEN [ en EXCEPT !.human = @ \cup ({k} \cap Arrows) ]
  ELSE [ en EXCEPT !.keys = @ \cup {k},
                   !.human = @ \cup ({k} \cap Arrows),
                   !.st.demo = IF k \in {"d", "D"} /\ en.listeners % 2 = 1
                               THEN ~@ ELSE @ ]

\* the engine's keyup listener(s): delete keys[k] / keys[k] = false
EngineKeyUp(en, k) ==
  IF en.listeners = 0 THEN [ en EXCEPT !.human = @ \ {k} ]
  ELSE [ en EXCEPT !.keys = @ \ {k}, !.human = @ \ {k} ]

\* ------------------------------------------------------------------------
\* app.js
\* ------------------------------------------------------------------------
\* the App object after boot(): switchMode('explore') and
\* selectCorner(App.corners[0]) have run; highlight is the corner whose
\* map marker carries the class "active" (0: none)
BootApp ==
  [ mode |-> "explore", engine |-> 0, selectedCorner |-> 1, highlight |-> 1,
    walkStep |-> 0, walkTimer |-> FALSE,
    quizRound |-> 0, quizScore |-> 0, quizCorrect |-> 0, quizMaxRounds |-> 6,
    quizView |-> "none" ]

\* selectCorner(corner), corner given by its number
selectCorner(w, n) ==
  [ w EXCEPT !.app.selectedCorner = n, !.app.highlight = n ]

\* clearMapHighlights()
clearMapHighlights(w) == [ w EXCEPT !.app.highlight = 0 ]

\* navCorner(dir)
navCorner(w, dir) ==
  IF w.app.selectedCorner = 0 THEN w
  ELSE LET idx == w.app.selectedCorner - 1
       IN  selectCorner(w, ((idx + dir + NumCorners) % NumCorners) + 1)

\* startRide(): engine creation is deferred to an animation frame
startRide(w) ==
  [ w EXCEPT !.rafQueue =
               Append(@, [ kind |-> "startRide", eng |-> 0, cur |-> FALSE ]) ]

\* the callback startRide hands to requestAnimationFrame
StartRideCallback(w) ==
  LET e == Len(w.eng) + 1
      en == [ init(variant, NewEngine(variant)) EXCEPT !.onLapComplete = TRUE ]
  IN  start([ w EXCEPT !.eng = Append(@, en),
                       !.cornerLog = Append(@, << >>),
                       !.lapsDone = Append(@, [ count |-> 0, log |-> << >> ]),
                       !.app.engine = e ], e)

\* startWalkthrough()
startWalkthrough(w) ==
  LET w1 == selectCorner([ w EXCEPT !.app.walkStep = 0 ], 1)
  IN  [ w1 EXCEPT !.app.walkTimer = TRUE, !.timers.walk = @ + 1 ]

\* nextQuizQuestion(); draw is the corner Math.random picks
nextQuizQuestion(w, draw) ==
  IF w.app.quizRound >= w.app.quizMaxRounds
  THEN [ w EXCEPT !.app.quizView = "result" ]
  ELSE [ clearMapHighlights(w) EXCEPT !.app.quizRound = @ + 1,
                                      !.app.quizCorrect = draw,
                                      !.app.quizView = "question" ]

\* startQuiz()
startQuiz(w, draw) ==
  nextQuizQuestion([ w EXCEPT !.app.quizRound = 0, !.app.quizScore = 0 ], draw)

\* an interval callback that shows the step it finds before advancing
WalkIntervalShowsThenSteps(w) ==
  LET step == (w.app.walkStep + 1) % NumCorners
  IN  selectCorner([ w EXCEPT !.app.walkStep = step ], w.app.walkStep + 1)

\* the callback startWalkthrough hands to setInterval
WalkIntervalCallback(w) ==
  LET step == (w.app.walkStep + 1) % NumCorners
  IN  selectCorner([ w EXCEPT !.app.walkStep = step ], step + 1)

\* a handleQuizAnswer that scores the click and keeps the question open
HandleQuizAnswerKeepsQuestion(w, clickedNum) ==
  IF w.app.quizCorrect = 0 THEN w
  ELSE [ w EXCEPT !.app.quizScore = IF clickedNum = w.app.quizCorrect
                                    THEN @ + 1 ELSE @,
                  !.timers.quiz = @ + 1 ]

\* handleQuizAnswer(clickedNum): scores the answer and schedules the next
\* question with setTimeout
handleQuizAnswer(w, clickedNum) ==
  IF w.app.quizCorrect = 0 THEN w
  ELSE [ w EXCEPT !.app.quizScore = IF clickedNum = w.app.quizCorrect
                                    THEN @ + 1 ELSE @,
                  !.app.quizCorrect = 0,
                  !.timers.quiz = @ + 1 ]

\* the callback handleQuizAnswer hands to setTimeout
QuizTimeoutCallback(w, draw) ==
  nextQuizQuestion([ w EXCEPT !.timers.quiz = @ - 1 ], draw)

\* the click listener of the map marker of corner n
MarkerClick(w, n) ==
  IF w.app.mode = "quiz" THEN handleQuizAnswer(w, n) ELSE selectCorner(w, n)

\* a switchMode that leaves a running walkthrough interval alone
SwitchModeKeepsInterval(w, mode, draw) ==
  LET w1 == IF w.app.mode = "ride" /\ w.app.engine # 0
            THEN [ stop(w, w.app.engine) EXCEPT !.app.engine = 0 ]
            ELSE w
      w3 == [ w1 EXCEPT !.app.mode = mode ]
  IN  CASE mode = "ride" -> startRide(w3)
        [] mode = "walkthrough" -> startWalkthrough(w3)
        [] mode = "quiz" -> startQuiz(w3, draw)
        [] mode = "explore" ->
             LET w4 == clearMapHighlights(w3)
             IN  IF w4.app.selectedCorner # 0
                 THEN selectCorner(w4, w4.app.selectedCorner)
                 ELSE w4

\* switchMode(mode)
switchMode(w, mode, draw) ==
  LET w1 == IF w.app.mode = "ride" /\ w.app.engine # 0
            THEN [ stop(w, w.app.engine) EXCEPT !.app.engine = 0 ]
            ELSE w
      w2 == IF w1.app.walkTimer
            THEN [ w1 EXCEPT !.app.walkTimer = FALSE, !.timers.walk = @ - 1 ]
            ELSE w1
      w3 == [ w2 EXCEPT !.app.mode = mode ]
  IN  CASE mode = "ride" -> startRide(w3)
        [] mode = "walkthrough" -> startWalkthrough(w3)
        [] mode = "quiz" -> startQuiz(w3, draw)
        [] mode = "explore" ->
             LET w4 == clearMapHighlights(w3)
             IN  IF w4.app.selectedCorner # 0
                 THEN selectCorner(w4, w4.app.selectedCorner)
                 ELSE w4

\* the keydown listener boot() registers on document: its four tests, in
\* the order they run
KeyEscape(w, k, draw) ==
  IF k = "Escape" /\ w.app.mode = "ride"
  THEN switchMode(w, "explore", draw) ELSE w

KeyR(w, k, draw) ==
  IF k \in {"r", "R"} /\ w.app.mode # "ride"
  THEN switchMode(w, "ride", draw) ELSE w

KeyArrowLeft(w, k) ==
  IF k = "ArrowLeft" /\ w.app.mode = "explore" THEN navCorner(w, -1) ELSE w

KeyArrowRight(w, k) ==
  IF k = "ArrowRight" /\ w.app.mode = "explore" THEN navCorner(w, 1) ELSE w

DocumentKeyDown(w, k, draw) ==
  KeyArrowRight(KeyArrowLeft(KeyR(KeyEscape(w, k, draw), k, draw), k), k)

\* ------------------------------------------------------------------------
\* Actions.  An event handler runs between refreshes (batch = 0); the
\* callbacks of one refresh run back to back.
\* ------------------------------------------------------------------------
\* a click on btn-ride / btn-explore / btn-walk / btn-quiz
ClickMode(mode, draw) ==
  /\ batch = 0
  /\ Commit(switchMode(World, mode, draw))
  /\ UNCHANGED << variant, batch, frames, plan >>

\* a click on the map marker of corner n
ClickMarker(n, draw) ==
  /\ batch = 0
  /\ (app.mode = "quiz" /\ app.quizCorrect # 0) => timers.quiz < MaxTimeouts
  /\ Commit(MarkerClick(World, n))
  /\ UNCHANGED << variant, batch, frames, plan >>

\* a click on btn-prev (dir = -1) or btn-next (dir = 1)
ClickNav(dir) ==
  /\ batch = 0
  /\ Commit(navCorner(World, dir))
  /\ UNCHANGED << variant, batch, frames, plan >>

\* a click on the retry button of the quiz result screen
ClickRetry(draw) ==
  /\ batch = 0
  /\ app.mode = "quiz"
  /\ app.quizView = "result"
  /\ Commit(startQuiz(World, draw))
  /\ UNCHANGED << variant, batch, frames, plan >>

\* the 4000 ms interval of the walkthrough fires
WalkTimerFires ==
  /\ batch = 0
  /\ timers.walk > 0
  /\ Commit(WalkIntervalCallback(World))
  /\ UNCHANGED << variant, batch, frames, plan >>

\* a 2200 ms timeout of the quiz fires
QuizTimeoutFires(draw) ==
  /\ batch = 0
  /\ timers.quiz > 0
  /\ Commit(QuizTimeoutCallback(World, draw))
  /\ UNCHANGED << variant, batch, frames, plan >>

\* a keydown event: it bubbles to the document listener of app.js first,
\* then to the listeners the engines registered on window
KeyDown(k, draw) ==
  /\ batch = 0
  /\ LET w == DocumentKeyDown(World, k, draw)
     IN  Commit([ w EXCEPT !.eng = [ e \in 1..Len(@) |-> EngineKeyDown(@[e], k) ] ])
  /\ UNCHANGED << variant, batch, frames, plan >>

\* a keyup event
KeyUp(k) ==
  /\ batch = 0
  /\ eng' = [ e \in 1..Len(eng) |-> EngineKeyUp(eng[e], k) ]
  /\ UNCHANGED << variant, app, timers, rafQueue, batch, frames, obs,
                  cornerLog, lapsDone, plan >>

\* loadAssets() settles: the second variant's init continues
AssetsLoaded(e) ==
  /\ batch = 0
  /\ e \in 1..Len(eng)
  /\ eng[e].loading
  /\ \E r \in RandomDraws : eng' = [ eng EXCEPT ![e] = InitResume(@, r) ]
  /\ UNCHANGED << variant, app, timers, rafQueue, batch, frames, obs,
                  cornerLog, lapsDone, plan >>

\* a caller assigns engine.onCornerEntered (app.js never does)
SetOnCornerEntered(e) ==
  /\ batch = 0
  /\ e \in 1..Len(eng)
  /\ ~eng[e].onCornerEntered
  /\ eng' = [ eng EXCEPT ![e].onCornerEntered = TRUE ]
  /\ UNCHANGED << variant, app, timers, rafQueue, batch, frames, obs,
                  cornerLog, lapsDone, plan >>

\* a caller invokes engine.reset() (first variant; app.js never does)
ApiReset(e) ==
  /\ batch = 0
  /\ variant = 1
  /\ e \in 1..Len(eng)
  /\ eng[e].built
  /\ LET w == reset(World, e)
     IN  Commit([ w EXCEPT !.obs = [ NoObs EXCEPT !.reset = e,
                                                 !.pre = eng[e].st,
                                                 !.post = w.eng[e].st ] ])
  /\ UNCHANGED << variant, batch, frames, plan >>

\* a caller invokes engine.stop() on a running engine
ApiStop(e) ==
  /\ batch = 0
  /\ e \in 1..Len(eng)
  /\ eng[e].running
  /\ Commit(stop(World, e))
  /\ UNCHANGED << variant, batch, frames, plan >>

\* a caller invokes engine.start() on a stopped engine; start() runs one
\* pass of the loop at once, which counts as a refresh explored
ApiStart(e) ==
  /\ batch = 0
  /\ e \in 1..Len(eng)
  /\ ~eng[e].running
  /\ Commit(start(World, e))
  /\ frames' = frames + 1
  /\ UNCHANGED << variant, batch, plan >>

\* a caller invokes engine.start() on an engine that is already running
ApiStartAgain(e) ==
  /\ batch = 0
  /\ e \in 1..Len(eng)
  /\ eng[e].running
  /\ Commit(start(World, e))
  /\ frames' = frames + 1
  /\ UNCHANGED << variant, batch, plan >>

\* a display refresh begins: the callbacks pending now belong to it
FrameBegin ==
  /\ batch = 0
  /\ rafQueue # << >>
  /\ batch' = Len(rafQueue)
  /\ frames' = frames + 1
  /\ eng' = [ e \in 1..Len(eng) |-> [ eng[e] EXCEPT !.passes = 0 ] ]
  /\ UNCHANGED << variant, app, timers, rafQueue, obs, cornerLog,
                  lapsDone, plan >>

\* a frame callback of the loop of engine e: a pass that ran to its end
\* is counted
LoopCallback(w, e) ==
  \E w1 \in { Loop(w, e) } :
    Commit(IF w.eng[e].running /\ ~w1.obs.threw
           THEN [ w1 EXCEPT !.eng[e].passes = @ + 1 ] ELSE w1)

\* the refresh runs its next callback
FrameCallback ==
  /\ batch > 0
  /\ LET cb == Head(rafQueue)
         w == [ World EXCEPT !.rafQueue = Tail(@) ]
     IN  IF cb.kind = "startRide" THEN Commit(StartRideCallback(w))
         ELSE LoopCallback(w, cb.eng)
  /\ batch' = batch - 1
  /\ UNCHANGED << variant, frames, plan >>

\* a frame callback of a running engine on a canvas of height H, the draw
\* commands of its render pass recorded (the other actions leave the
\* canvas unobserved)
FrameCallbackCanvas(H) ==
  /\ batch > 0
  /\ Head(rafQueue).kind = "loop"
  /\ LET e == Head(rafQueue).eng
         w == [ World EXCEPT !.rafQueue = Tail(@) ]
     IN  /\ w.eng[e].running
         /\ \E w1 \in { Loop(w, e) } :
              Commit(IF w1.obs.threw THEN w1
                     ELSE [ w1 EXCEPT
                              !.eng[e].passes = @ + 1,
                              !.obs.rendered = TRUE,
                              !.obs.canvasHeight = H,
                              !.obs.draw =
                                render(variant, w1.eng[e].st,
                                       Segments(variant, w1.eng[e]),
                                       Scenery(variant, w1.eng[e].rnd), H) ])
  /\ batch' = batch - 1
  /\ UNCHANGED << variant, frames, plan >>

\* drawSegment called with a pair of projections at screen-Y y1 and y2
CallDrawSegment(y1, y2, color) ==
  /\ batch = 0
  /\ variant = 1
  /\ obs' = [ NoObs EXCEPT !.segment = << y1, y2 >>,
                           !.draw = drawSegment(y1, y2, color) ]
  /\ UNCHANGED << variant, app, timers, rafQueue, batch, frames, eng,
                  cornerLog, lapsDone, plan >>

\* ------------------------------------------------------------------------
\* Specification of the page: mode switches, key events and refreshes,
\* from the state boot() leaves
\* ------------------------------------------------------------------------
NoPlan == [ auto |-> FALSE, cap |-> 0, handler |-> FALSE ]

InitPage ==
  /\ app = BootApp
  /\ timers = [ walk |-> 0, quiz |-> 0 ]
  /\ rafQueue = << >>
  /\ batch = 0
  /\ frames = 0
  /\ eng = << >>
  /\ obs = NoObs
  /\ cornerLog = << >>
  /\ lapsDone = << >>

Init ==
  /\ variant \in {1, 2}
  /\ InitPage
  /\ plan = NoPlan

\* keys pressed in the page specification
RideKeys == {"Escape", "r", "d"}

\* the corner Math.random picks for a quiz question in the page
\* specification
RideDraws == {NumCorners}

\* engines are created up to MaxEngines: a further ride request is not made
CanRequestRide ==
  Len(eng) + Cardinality({ i \in 1..Len(rafQueue) : rafQueue[i].kind = "startRide" })
    < MaxEngines

Next ==
  \/ \E mode \in Modes, draw \in RideDraws :
       /\ mode = "ride" => CanRequestRide
       /\ ClickMode(mode, draw)
  \/ \E k \in RideKeys, draw \in RideDraws :
       /\ (k = "r" /\ app.mode # "ride") => CanRequestRide
       /\ KeyDown(k, draw)
  \/ \E k \in RideKeys : KeyUp(k)
  \/ \E e \in 1..MaxEngines : AssetsLoaded(e)
  \/ (frames < MaxFrames /\ FrameBegin)
  \/ FrameCallback

Spec == Init /\ [][Next]_vars

\* ------------------------------------------------------------------------
\* Specification of the map page: the explore, walkthrough and quiz modes
\* from boot, with marker and button clicks and the timers of app.js
\* ------------------------------------------------------------------------
MapModes == {"explore", "walkthrough", "quiz"}

\* the markers clicked, and the corners Math.random picks for a question
MapCorners == {1, NumCorners}

NextMap ==
  \/ \E mode \in MapModes, draw \in MapCorners : ClickMode(mode, draw)
  \/ \E n \in MapCorners, draw \in MapCorners : ClickMarker(n, draw)
  \/ \E dir \in {-1, 1} : ClickNav(dir)
  \/ \E draw \in MapCorners : ClickRetry(draw)
  \/ WalkTimerFires
  \/ \E draw \in MapCorners : QuizTimeoutFires(draw)

SpecMap == Init /\ [][NextMap]_vars

\* ------------------------------------------------------------------------
\* Specification of the walkthrough: the map page with the visitor who
\* enters walkthrough mode and from then on only uses btn-prev / btn-next.
\* A live interval timer keeps firing.
\* ------------------------------------------------------------------------
NextWalk ==
  \/ \E draw \in MapCorners :
       /\ app.mode # "walkthrough"
       /\ ClickMode("walkthrough", draw)
  \/ \E dir \in {-1, 1} : ClickNav(dir)
  \/ WalkTimerFires

SpecWalk == Init /\ [][NextWalk]_vars /\ WF_vars(WalkTimerFires)

\* ------------------------------------------------------------------------
\* Specification of the tick: one engine whose init has completed and
\* whose start() has run, taken at a checkpoint of a ride, then free key
\* events and MaxTicks refreshes
\* ------------------------------------------------------------------------
\* n further updates with the given keys held (autopilot off, so the
\* input map stays as it is); the singleton sets only make the first half
\* of the run a value before the second half starts
RECURSIVE RunTicks(_, _, _, _)
RunTicks(v, s, keys, n) ==
  IF n = 0 THEN s
  ELSE IF n = 1 THEN Update(v, s, keys, buildTrack(v), TRUE, FALSE).st
  ELSE CHOOSE r \in { RunTicks(v, m, keys, n - (n \div 2)) :
                        m \in { RunTicks(v, s, keys, n \div 2) } } : TRUE

\* a schedule is a sequence of phases <<keys held, number of updates>>
RECURSIVE RunSchedule(_, _, _)
RunSchedule(v, s, sched) ==
  IF sched = << >> THEN s
  ELSE RunSchedule(v, RunTicks(v, s, sched[1][1], sched[1][2]), Tail(sched))

\* the engine when start() returns: init completed (Math.random() having
\* returned r in the second variant), listeners registered, the first pass
\* done with no key held
StartedEngine(v, hasCorner, r) ==
  LET e0 == [ NewEngine(v) EXCEPT !.onLapComplete = TRUE,
                                  !.onCornerEntered = hasCorner ]
      e1 == IF v = 1 THEN init(1, e0) ELSE InitResume(init(2, e0), r)
      w == start([ app |-> [ BootApp EXCEPT !.mode = "ride", !.engine = 1 ],
                   timers |-> [ walk |-> 0, quiz |-> 0 ],
                   rafQueue |-> << >>, eng |-> << e1 >>, obs |-> NoObs,
                   cornerLog |-> << << >> >>,
                   lapsDone |-> << [ count |-> 0, log |-> << >> ] >> ], 1)
  IN  w.eng[1]

\* rides up to a checkpoint: fresh; full throttle to just below top speed;
\* full throttle, then lifting and braking, to a tick or two before the
\* finish line; full throttle with the left key held until the vehicle is
\* far off the road
Checkpoints(v) ==
  IF v = 1
  THEN { << >>,
         << << {"ArrowUp"}, 125 >> >>,
         << << {"ArrowUp"}, 268 >>, << {}, 7 >>, << {"ArrowUp"}, 1 >> >>,
         << << {"ArrowUp", "ArrowLeft"}, 684 >> >> }
  ELSE { << >>,
         << << {"ArrowUp"}, 140 >> >>,
         << << {"ArrowUp"}, 421 >>, << {"ArrowDown"}, 2 >>,
            << {"ArrowUp"}, 1 >>, << {}, 2 >>, << {"ArrowDown"}, 1 >> >>,
         << << {"ArrowUp", "ArrowLeft"}, 1950 >> >> }

\* full throttle from the start line to a tick or two before the segment
\* where the first corner begins
EntryCheckpoints(v) ==
  IF v = 1 THEN { << << {"ArrowUp"}, 46 >> >> }
  ELSE { << << {"ArrowUp"}, 77 >> >> }

\* full throttle with the left key held, to a tick or two before the
\* vehicle leaves the road
EdgeCheckpoints(v) ==
  IF v = 1 THEN { << << {"ArrowUp", "ArrowLeft"}, 291 >> >> }
  ELSE { << << {"ArrowUp", "ArrowLeft"}, 244 >> >> }

\* one running engine of either variant brought to one of the checkpoints
\* cps1 (first variant) or cps2 (second variant)
InitFrom(cps1, cps2) ==
  /\ variant \in {1, 2}
  /\ \E sched \in (IF variant = 1 THEN cps1 ELSE cps2),
        hasCorner \in (IF variant = 1 THEN BOOLEAN ELSE {FALSE}),
        r \in (IF variant = 1 THEN {0} ELSE RandomDraws) :
       LET e1 == StartedEngine(variant, hasCorner, r)
       IN  eng = << [ e1 EXCEPT
                        !.st = RunSchedule(variant, e1.st, sched),
                        !.keys = IF sched = << >> THEN {}
                                 ELSE sched[Len(sched)][1],
                        !.human = IF sched = << >> THEN {}
                                  ELSE sched[Len(sched)][1] ] >>
  /\ app = [ BootApp EXCEPT !.mode = "ride", !.engine = 1 ]
  /\ timers = [ walk |-> 0, quiz |-> 0 ]
  /\ rafQueue = << [ kind |-> "loop", eng |-> 1, cur |-> (variant = 1) ] >>
  /\ batch = 0
  /\ frames = 0
  /\ obs = NoObs
  /\ cornerLog = << << >> >>
  /\ lapsDone = << [ count |-> 0, log |-> << >> ] >>
  /\ plan = NoPlan

InitTick == InitFrom(Checkpoints(1), Checkpoints(2))

\* keys pressed in the tick specification
TickKeys == {"ArrowUp", "ArrowDown", "d"}

NextTick ==
  \/ \E k \in TickKeys : KeyDown(k, NumCorners)
  \/ \E k \in TickKeys : KeyUp(k)
  \/ ApiReset(1)
  \/ ApiStop(1)
  \/ (frames < MaxTicks /\ ApiStart(1))
  \/ (frames < MaxTicks /\ FrameBegin)
  \/ FrameCallback

SpecTick == InitTick /\ [][NextTick]_vars

\* ------------------------------------------------------------------------
\* Specification of the calls: one engine just started, then start() and
\* stop() called in any order between refreshes, and the autopilot key
\* ------------------------------------------------------------------------
InitCalls ==
  /\ InitTick
  /\ eng[1].st.position = 0
  /\ eng[1].st.speed = 0

NextCalls ==
  \/ KeyDown("d", NumCorners)
  \/ KeyUp("d")
  \/ ApiStop(1)
  \/ (frames < MaxTicks /\ ApiStart(1))
  \/ (frames < MaxTicks /\ ApiStartAgain(1))
  \/ (frames < MaxTicks /\ FrameBegin)
  \/ FrameCallback

SpecCalls == InitCalls /\ [][NextCalls]_vars

\* ------------------------------------------------------------------------
\* Specification of the corner entry: one engine about to reach the first
\* corner of its track, under the same calls
\* ------------------------------------------------------------------------
InitEntry == InitFrom(EntryCheckpoints(1), EntryCheckpoints(2))

SpecEntry == InitEntry /\ [][NextCalls]_vars

\* ------------------------------------------------------------------------
\* Specification of the road edge: one engine about to leave the road with
\* the throttle and the left key held, under the same calls
\* ------------------------------------------------------------------------
InitEdge == InitFrom(EdgeCheckpoints(1), EdgeCheckpoints(2))

SpecEdge == InitEdge /\ [][NextCalls]_vars

\* ------------------------------------------------------------------------
\* Specification of the render pass: one engine at a checkpoint, its
\* frames drawn on canvases of several heights, and drawSegment called
\* with projections on either side of each other
\* ------------------------------------------------------------------------
ProbeYs == {0, 1, 2}

NextRender ==
  \/ (frames < MaxRenders /\ FrameBegin)
  \/ \E H \in CanvasHeights : FrameCallbackCanvas(H)
  \/ \E y1, y2 \in ProbeYs, color \in {0, 1} : CallDrawSegment(y1, y2, color)

SpecRender == InitTick /\ [][NextRender]_vars

\* ------------------------------------------------------------------------
\* Specification of the lap: the first variant, from boot, with a rider
\* who enters ride mode and then drives one plan until MaxLaps laps are
\* done.  A plan is the autopilot, or a cruise speed held by pressing
\* ArrowUp below it and releasing it at or above it; with or without a
\* handler in onCornerEntered.
\* ------------------------------------------------------------------------
CruiseCaps ==
  { ACCELERATION(1) } \cup
  { (MAX_SPEED(1) * j) \div CruiseLevels : j \in 1..CruiseLevels }

Plans ==
  { [ auto |-> TRUE, cap |-> 0, handler |-> h ] : h \in BOOLEAN } \cup
  { [ auto |-> FALSE, cap |-> c, handler |-> h ] : c \in CruiseCaps, h \in BOOLEAN }

InitLap ==
  /\ variant = 1
  /\ InitPage
  /\ plan \in Plans

\* the rider presses R on the map page
RiderEnters ==
  /\ app.mode # "ride"
  /\ eng = << >>
  /\ KeyDown("r", NumCorners)

\* the caller installs its corner handler on the new engine
RiderHandler ==
  /\ plan.handler
  /\ SetOnCornerEntered(1)

\* the rider switches the autopilot on
RiderAuto ==
  /\ plan.auto
  /\ eng # << >>
  /\ ~eng[1].st.demo
  /\ KeyDown("d", NumCorners)

\* the rider opens the throttle below the cruise speed
RiderThrottle ==
  /\ ~plan.auto
  /\ eng # << >>
  /\ eng[1].st.speed < plan.cap
  /\ "ArrowUp" \notin eng[1].keys
  /\ KeyDown("ArrowUp", NumCorners)

\* the rider closes the throttle at the cruise speed
RiderLift ==
  /\ ~plan.auto
  /\ eng # << >>
  /\ eng[1].st.speed >= plan.cap
  /\ "ArrowUp" \in eng[1].keys
  /\ KeyUp("ArrowUp")

\* the rider has nothing to do before the next refresh
RiderSettled ==
  /\ app.mode = "ride"
  /\ eng # << >> =>
       /\ plan.handler => eng[1].onCornerEntered
       /\ plan.auto => eng[1].st.demo
       /\ ~plan.auto => (eng[1].st.speed < plan.cap <=> "ArrowUp" \in eng[1].keys)
       /\ lapsDone[1].count < MaxLaps

NextLap ==
  \/ RiderEnters
  \/ RiderHandler
  \/ RiderAuto
  \/ RiderThrottle
  \/ RiderLift
  \/ (RiderSettled /\ FrameBegin)
  \/ FrameCallback

SpecLap == InitLap /\ [][NextLap]_vars

\* ------------------------------------------------------------------------
\* Specification of the autopilot lap: the lap specification with the
\* rider who switches the autopilot on as soon as the engine has started
\* and then touches no key.  The browser keeps refreshing the display
\* while a frame callback is pending, so a step that stays possible is
\* eventually taken.
\* ------------------------------------------------------------------------
InitAuto ==
  /\ InitLap
  /\ plan.auto

NextAuto ==
  \/ RiderEnters
  \/ RiderHandler
  \/ RiderAuto
  \/ (RiderSettled /\ frames < MaxLapFrames /\ FrameBegin)
  \/ FrameCallback

SpecAuto == InitAuto /\ [][NextAuto]_vars /\ WF_vars(NextAuto)

\* ------------------------------------------------------------------------
\* Properties of the specification, by the numbered statement they settle
\* ------------------------------------------------------------------------
Engines == 1..Len(eng)

\* engine e is running with a frame callback of its loop pending
RunningLoop(e) ==
  /\ eng[e].running
  /\ \E i \in 1..Len(rafQueue) : rafQueue[i].kind = "loop" /\ rafQueue[i].eng = e

\* C1: across every interleaving of mode-switch requests and the deferred
\* startRide callback, at most one RideEngine is running with a frame loop
\* scheduled.
C1_AtMostOneRunningEngine ==
  Cardinality({ e \in Engines : RunningLoop(e) }) <= 1

\* C2: whenever App.mode is not 'ride' (between handlers), no RideEngine is
\* running and no engine keydown / keyup listener is registered on window.
C2_NoEngineOutsideRide ==
  app.mode # "ride" =>
    \A e \in Engines : ~eng[e].running /\ eng[e].listeners = 0

\* C3: in both variants, after every tick 0 <= speed <= MAX_SPEED, whatever
\* the key events and autopilot toggles.
C3_SpeedWithinBounds ==
  \A e \in Engines :
    eng[e].st.speed >= 0 /\ eng[e].st.speed <= MAX_SPEED(variant)

\* C4: in both variants, after init and any number of ticks,
\* 0 <= position < trackLength.
C4_PositionWithinTrack ==
  \A e \in Engines :
    eng[e].built =>
      eng[e].st.position >= 0 /\ eng[e].st.position < eng[e].st.trackLength

\* C5: in both variants, a tick invokes the handler registered as
\* engine.onLapComplete exactly once if position + speed reaches or passes
\* trackLength in it, and not at all otherwise.
C5_LapHandlerOncePerWrap ==
  (obs.eng # 0 /\ ~obs.threw) =>
    obs.lapCalls = IF obs.pre.position + obs.post.speed >= obs.pre.trackLength
                   THEN 1 ELSE 0

\* the corners 1..n in order
CornersUpTo(n) == [ i \in 1..n |-> i ]

\* C6: first variant, onCornerEntered set, from position 0: for every ride
\* that completes a lap, the corners handed to onCornerEntered before the
\* lap-complete event are exactly 1, 2, ..., 12, each once and in order;
\* on the way the corners reported so far are 1..k with none repeated.
C6_CornersOncePerLapInOrder ==
  \A e \in Engines :
    eng[e].onCornerEntered =>
      /\ cornerLog[e] = CornersUpTo(Len(cornerLog[e]))
      /\ Len(cornerLog[e]) <= NumCorners
      /\ lapsDone[e].count > 0 => lapsDone[e].log = CornersUpTo(NumCorners)

\* C6 witness: a lap has been completed with the handler installed
C6_Witness ==
  /\ Len(eng) = 1
  /\ eng[1].onCornerEntered
  /\ lapsDone[1].count = 1
  /\ Len(lapsDone[1].log) = NumCorners

C8_BrakeWins ==
  (obs.eng # 0 /\ ~obs.threw /\ ~obs.pre.demo
     /\ {"ArrowUp", "ArrowDown"} \subseteq obs.preKeys) =>
    obs.longSpeed = Max(obs.pre.speed - BRAKING(variant), 0)

\* C9: no tick of a frame loop that app.js starts fails: the segment lookup
\* is defined and update completes.
C9_NoTickFails == ~obs.threw

\* C10: in both variants, after stop() running is false, no pending frame
\* callback of the engine can run an update, the engine's key listeners are
\* no longer registered, and a second stop() changes nothing.
C10_StopReleasesAndIsIdempotent ==
  \A e \in Engines :
    ~eng[e].running =>
      /\ eng[e].listeners = 0
      /\ Loop(World, e) = World
      /\ stop(World, e) = World

\* C11: first variant, reset() in any reachable state sets position, speed
\* and x to 0 and currentCorner to null, and leaves trackLength, the built
\* track, the running flag, the pending frame callbacks, the listener
\* registrations and the App object as they were.
C11_ResetZeroesDynamicState ==
  variant = 1 =>
    /\ \A e \in Engines :
         eng[e].built =>
           LET w == reset(World, e)
           IN  /\ w.eng[e].st.position = 0
               /\ w.eng[e].st.speed = 0
               /\ w.eng[e].st.x = 0
               /\ w.eng[e].st.currentCorner = 0
               /\ w.eng[e].st.trackLength = eng[e].st.trackLength
               /\ w.eng[e].built = eng[e].built
               /\ w.eng[e].running = eng[e].running
               /\ w.eng[e].listeners = eng[e].listeners
               /\ w.eng[e].hasRaf = eng[e].hasRaf
               /\ w.rafQueue = rafQueue
               /\ w.app = app
               /\ \A f \in Engines \ {e} : w.eng[f] = eng[f]
    /\ obs.reset # 0 =>
         /\ obs.post.position = 0 /\ obs.post.speed = 0 /\ obs.post.x = 0
         /\ obs.post.currentCorner = 0
         /\ obs.post.trackLength = obs.pre.trackLength
         /\ obs.post.trackLength = TrackLength(1)

\* C11 witness: reset() has just run on a moving vehicle inside a corner,
\* with the engine running and its frame callback pending
C11_Witness ==
  /\ obs.reset # 0
  /\ obs.pre.speed > 0 /\ obs.pre.position > 0 /\ obs.pre.currentCorner # 0
  /\ eng[obs.reset].running
  /\ rafQueue # << >>
  /\ eng[obs.reset].st = obs.post

\* C12: in both variants, once init has completed trackLength equals
\* segments.length * SEGMENT_LENGTH, and it stays so, with the track still
\* the one init built, after every tick, key event, autopilot toggle,
\* start(), stop() and reset().
C12_TrackLengthFixed ==
  \A e \in Engines :
    eng[e].built =>
      /\ eng[e].st.trackLength = Len(Segments(variant, eng[e])) * SEGMENT_LENGTH
      /\ Segments(variant, eng[e]) # << >>
      /\ obs.eng = e => /\ obs.post.trackLength = obs.pre.trackLength
                        /\ obs.post.trackLength = eng[e].st.trackLength

\* C12 witness: a tick has run with the autopilot on and the engine has
\* been stopped since
C12_Witness ==
  /\ obs.eng # 0 /\ ~obs.threw /\ obs.pre.demo
  /\ obs.post.position > obs.pre.position
  /\ ~eng[obs.eng].running
  /\ eng[obs.eng].st.trackLength = TrackLength(variant)

\* C13: in both variants, with the autopilot enabled the vehicle state a
\* tick produces depends on the state and the track alone: whichever arrow
\* keys are held, the update yields the same state, and every observed
\* autopilot tick produced the state the update yields with no key held.
C13_AutopilotIgnoresHeldKeys ==
  /\ \A e \in Engines :
       (eng[e].built /\ eng[e].st.demo) =>
         \A next \in { EngineUpdate(eng[e]).st } :
           \A held \in SUBSET Arrows :
             Update(variant, eng[e].st, (eng[e].keys \ Arrows) \cup held,
                    Segments(variant, eng[e]), eng[e].onLapComplete,
                    eng[e].onCornerEntered).st = next
  /\ (obs.eng # 0 /\ obs.pre.demo /\ ~obs.threw) =>
       obs.post = Update(variant, obs.pre, {}, buildTrack(variant),
                         FALSE, FALSE).st

\* C13 witness: an autopilot tick gained speed while the brake key was held
C13_Witness ==
  /\ obs.eng # 0 /\ obs.pre.demo /\ ~obs.threw
  /\ "ArrowDown" \in obs.preKeys
  /\ "ArrowDown" \in obs.preHuman
  /\ obs.post.speed > obs.pre.speed

\* C14: in the first variant, in every tick with the autopilot disabled
\* the arrow keys the update treats as held are exactly those whose most
\* recent event from the keyboard was a keydown.
C14_ManualTickUsesHumanKeys ==
  (variant = 1 /\ obs.eng # 0 /\ ~obs.pre.demo) =>
    obs.preKeys \cap Arrows = obs.preHuman

\* the autopilot of engine 1 is on and the vehicle is at the initial state
AutopilotAtStart ==
  /\ eng # << >>
  /\ eng[1].st.demo
  /\ eng[1].st.position = 0 /\ eng[1].st.speed = 0 /\ eng[1].st.x = 0

\* C15: in the first variant, from the initial state (position 0, speed 0,
\* x 0) with the autopilot on and no key event from the rider, the run
\* eventually completes a lap, and in every state up to the end of that
\* lap |x| is at most 1.0.
C15_AutopilotCompletesLapOnTrack ==
  /\ [](\A e \in Engines :
          (eng[e].st.demo /\ lapsDone[e].count = 0) =>
            Abs(eng[e].st.x) <= 1000000)
  /\ [](obs.lap => Abs(obs.post.x) <= 1000000)
  /\ (AutopilotAtStart ~> (eng # << >> /\ lapsDone[1].count >= 1))

\* C15 witness: the autopilot has finished its lap, having steered on the way
C15_Witness ==
  /\ eng # << >>
  /\ eng[1].st.demo
  /\ lapsDone[1].count = 1
  /\ obs.lap
  /\ obs.post.x # 0
  /\ eng[1].human = {}

\* C16: in both variants the lateral offset x is within [-2.5, 2.5] after
\* every tick.
C16_LateralOffsetWithinClamp ==
  (obs.eng # 0 /\ ~obs.threw) => Abs(obs.post.x) <= 2500000

\* the 1-based positions of the segments of corner zone k in a track
ZoneOf(segs, k) == { n \in 1..Len(segs) : segs[n].cornerIndex = k }

\* the first and the last segment of every corner zone have curve 0
ZoneEndsFlat(segs) ==
  \A k \in 1..NumCorners :
    LET zone == ZoneOf(segs, k)
    IN  /\ zone # {}
        /\ \A n \in zone :
             (n - 1 \notin zone \/ n + 1 \notin zone) => segs[n].curve = 0

\* a curved segment of a zone bends the way CORNERS_DATA says: curve > 0
\* for a right-hand corner, curve < 0 for a left-hand corner
ZoneSignsMatch(segs) ==
  \A n \in 1..Len(segs) :
    (segs[n].cornerIndex # 0 /\ segs[n].curve # 0) =>
      Sign(segs[n].curve) =
        (IF CORNERS_DATA[segs[n].cornerIndex].direction = "right" THEN 1 ELSE -1)

\* a segment outside every corner zone is straight
StraightsFlat(segs) ==
  \A n \in 1..Len(segs) : segs[n].cornerIndex = 0 => segs[n].curve = 0

\* the three together, for the track each variant builds
TrackShape1 ==
  ZoneEndsFlat(BuildTrack1) /\ ZoneSignsMatch(BuildTrack1) /\ StraightsFlat(BuildTrack1)

TrackShape2 ==
  ZoneEndsFlat(BuildTrack2) /\ ZoneSignsMatch(BuildTrack2) /\ StraightsFlat(BuildTrack2)

\* C17: in the track each variant builds, the first and the last segment
\* of every corner zone have curve = 0, every curved segment of a zone has
\* the sign of the corner's direction in CORNERS_DATA, and every segment
\* outside a corner zone has curve = 0.
C17_ZonesFlatAtEndsAndSigned ==
  \A e \in Engines :
    eng[e].built => IF variant = 1 THEN TrackShape1 ELSE TrackShape2

\* the roadside object lists of the track engine e built
SceneryOf(e) == Scenery(variant, eng[e].rnd)

\* C18: scenery population is deterministic in both variants: any two
\* builds of the track give, for every segment index, identical roadside
\* object lists (same types, same offsets, same order).
C18_SceneryDeterministic ==
  \A e1 \in Engines, e2 \in Engines :
    (eng[e1].built /\ eng[e2].built) => SceneryOf(e1) = SceneryOf(e2)

\* every cornerIndex of a track is null or the number of a corner record
CornerIndexesValid(segs) ==
  \A n \in 1..Len(segs) :
    \/ segs[n].cornerIndex = 0
    \/ /\ segs[n].cornerIndex \in 1..12
       /\ HudLookup(CORNERS_DATA, segs[n].cornerIndex) # Undefined
       /\ HudLookup(CORNERS_DATA, segs[n].cornerIndex).number = segs[n].cornerIndex

CornerIndexesValid1 == CornerIndexesValid(BuildTrack1)

CornerIndexesValid2 == CornerIndexesValid(BuildTrack2)

\* C19: in both variants every segment's cornerIndex is null or a k in
\* 1..12 with corners[k - 1] present and corners[k - 1].number = k, and in
\* every reachable state with currentCorner non-null the HUD lookup
\* corners[currentCorner - 1] is defined and is the record of that corner.
C19_CornerLookupDefined ==
  /\ Len(CORNERS_DATA) = NumCorners
  /\ \A e \in Engines :
       /\ eng[e].built =>
            IF variant = 1 THEN CornerIndexesValid1 ELSE CornerIndexesValid2
       /\ eng[e].st.currentCorner # 0 =>
            /\ HudLookup(CORNERS_DATA, eng[e].st.currentCorner) # Undefined
            /\ HudLookup(CORNERS_DATA, eng[e].st.currentCorner).number
                 = eng[e].st.currentCorner

\* C19 witness: a tick has just put the vehicle inside a corner zone
C19_Witness ==
  /\ obs.eng # 0 /\ ~obs.threw
  /\ obs.post.currentCorner # 0
  /\ eng[obs.eng].st.currentCorner = obs.post.currentCorner

\* C20: whenever an engine is running, its keydown and keyup listeners are
\* registered, after every sequence of init(), start() and stop() calls
\* that ends with start().
C20_RunningEngineHasListeners ==
  \A e \in Engines : eng[e].running => eng[e].listeners > 0

\* C21: a quiz run consists of 5 rounds: after startQuiz exactly 5
\* questions are presented, and the result screen is shown after the 5th
\* has been answered.
C21_QuizHasFiveRounds ==
  /\ app.quizRound <= 5
  /\ (app.mode = "quiz" /\ app.quizView = "result") => app.quizRound = 5

\* a firing of the walkthrough interval
WalkFiring == WalkTimerFires /\ app.mode = "walkthrough"

\* C22: switchMode('walkthrough') selects corner 1; each firing of the
\* interval selects the corner after the one the previous firing (or the
\* mode switch) selected, 12 being followed by 1, so the k-th firing
\* selects corner (k mod 12) + 1; and while the mode stays 'walkthrough'
\* every corner is selected again and again.
C22_WalkthroughCyclesCorners ==
  /\ [][(app.mode # "walkthrough" /\ app'.mode = "walkthrough") =>
          (app'.selectedCorner = 1 /\ app'.walkStep = 0 /\ timers'.walk = 1)]_vars
  /\ [][WalkFiring =>
          /\ app'.walkStep = (app.walkStep + 1) % NumCorners
          /\ app'.selectedCorner = app'.walkStep + 1
          /\ app'.highlight = app'.selectedCorner]_vars
  /\ \A c \in 1..NumCorners :
       (app.mode = "walkthrough") ~>
         (app.selectedCorner = c /\ app.walkStep = c - 1 /\ app.highlight = c)

\* C22 witness: the walkthrough has wrapped from corner 12 to corner 1
\* after a visitor's click had moved the panel elsewhere
C22_Witness ==
  /\ app.mode = "walkthrough"
  /\ timers.walk = 1
  /\ app.walkStep = NumCorners - 1
  /\ app.selectedCorner = 6

\* C23: each engine performs at most one update-then-render pass per
\* display refresh, for every sequence of start() and stop() calls: the
\* vehicle state is never advanced twice in one refresh.
C23_OnePassPerRefresh ==
  \A e \in Engines : eng[e].passes <= 1

\* C24: within one render pass the pairs are painted strictly back to
\* front: the background comes first and the HUD last, every painted pair
\* has a distance index in 1..DRAW_DISTANCE - 1, the indices never
\* increase along the commands, and a pair's commands begin exactly once
\* (with its grass strip), so all commands of pair i precede those of
\* pair i - 1 and no pair is painted twice
BackgroundKinds == {"clear", "background"}

HudKinds == {"hud", "minimap", "dashboard", "overlay"}

PaintRank(c) ==
  IF c.kind \in BackgroundKinds THEN DRAW_DISTANCE(variant)
  ELSE IF c.kind \in HudKinds THEN 0 ELSE c.pair

C24_PaintedBackToFront ==
  obs.rendered =>
    \E d \in { obs.draw } :
      /\ d[1].kind \in BackgroundKinds
      /\ d[Len(d)].kind \in HudKinds
      /\ \A j \in 1..Len(d) :
           (d[j].kind \notin BackgroundKinds \cup HudKinds) =>
             d[j].pair \in 1..(DRAW_DISTANCE(variant) - 1)
      /\ \A j \in 1..(Len(d) - 1) :
           /\ PaintRank(d[j]) >= PaintRank(d[j + 1])
           /\ (d[j + 1].kind = "grass") <=>
                (PaintRank(d[j]) > PaintRank(d[j + 1])
                 /\ PaintRank(d[j + 1]) > 0)

C24_Witness ==
  /\ obs.rendered
  /\ obs.canvasHeight > 0
  /\ \E j \in 1..Len(obs.draw) :
       /\ obs.draw[j].pair = DRAW_DISTANCE(variant) - 1
       /\ \E m \in (j + 1)..Len(obs.draw) :
            /\ obs.draw[m].kind = "object"
            /\ \E k \in (m + 1)..Len(obs.draw) : obs.draw[k].pair = 1

\* C25: drawSegment issues no command when proj1.y <= proj2.y, and on a
\* canvas of height H > 0 every pair painted by the render loop has its
\* near screen-Y strictly greater than its far screen-Y and its far
\* screen-Y at or below the horizon H / 2
C25_PaintedPairsFaceViewer ==
  /\ (obs.segment # << >> /\ obs.segment[1] <= obs.segment[2]) =>
       obs.draw = << >>
  /\ (obs.rendered /\ obs.canvasHeight > 0) =>
       \A j \in 1..Len(obs.draw) :
         obs.draw[j].pair > 0 =>
           /\ obs.draw[j].near > obs.draw[j].far
           /\ obs.draw[j].far >= Horizon(variant, obs.canvasHeight)

C25_Witness ==
  /\ obs.rendered
  /\ obs.canvasHeight = 1
  /\ \E j \in 1..Len(obs.draw) :
       /\ obs.draw[j].pair = DRAW_DISTANCE(variant) - 1
       /\ obs.draw[j].kind = "road"

\* the 1-based places of the segments of a track that belong to corner k
CornerSegs(segs, k) == { n \in 1..Len(segs) : segs[n].cornerIndex = k }

\* the segments of corner k are one non-empty run of consecutive places
OneRange(segs, k) ==
  \E a \in 1..Len(segs), b \in 1..Len(segs) :
    /\ a <= b
    /\ segs[a].cornerIndex = k /\ segs[b].cornerIndex = k
    /\ (a > 1 => segs[a - 1].cornerIndex # k)
    /\ (b < Len(segs) => segs[b + 1].cornerIndex # k)
    /\ CornerSegs(segs, k) = a..b

\* index equals the array position, every corner has one range, and the
\* range of corner k ends before the range of corner k + 1 begins
IndexedAndRanged(segs) ==
  /\ \A n \in 1..Len(segs) : segs[n].index = n - 1
  /\ \A k \in 1..NumCorners : OneRange(segs, k)
  /\ \A k \in 1..(NumCorners - 1) :
       \A a \in CornerSegs(segs, k), b \in CornerSegs(segs, k + 1) : a < b

IndexedAndRanged1 == IndexedAndRanged(BuildTrack1)

IndexedAndRanged2 == IndexedAndRanged(BuildTrack2)

\* C26: in the track an engine has built, segments[i].index = i, and for
\* each corner number k in 1..12 the segments with cornerIndex = k form
\* exactly one non-empty contiguous range; the ranges are disjoint and
\* follow each other in increasing order of k.
C26_CornerRangesInOrder ==
  \A e \in Engines :
    eng[e].built =>
      /\ Len(Segments(variant, eng[e])) > NumCorners
      /\ IF variant = 1 THEN IndexedAndRanged1 ELSE IndexedAndRanged2

C26_Witness ==
  \E e \in Engines :
    /\ eng[e].built /\ eng[e].running
    /\ eng[e].st.currentCorner = 0
    /\ CornerSegs(Segments(variant, eng[e]), NumCorners) # {}

\* the colour bands of a track: 0 or 1, given by the index alone
BandsByIndex(segs) ==
  \A n \in 1..Len(segs) :
    /\ segs[n].color \in {0, 1}
    /\ segs[n].color = ColorOf(segs[n].index)

\* length of the maximal same-colour run that starts at 1-based place n of
\* the cycle (0 if no run starts there): place n differs from the place
\* before it, and the run extends while the colour stays
CycleRunLength(segs, n) ==
  LET N == Len(segs)
      at(j) == segs[((n - 1 + j) % N) + 1].color
  IN  IF at(N - 1) = at(0) THEN 0
      ELSE CHOOSE len \in 1..N :
             /\ \A j \in 0..(len - 1) : at(j) = at(0)
             /\ at(len) # at(0)

RumbleRuns(segs) ==
  \A n \in 1..Len(segs) : CycleRunLength(segs, n) \in {0, RUMBLE_LENGTH}

RumbleRuns1 == BandsByIndex(BuildTrack1) /\ RumbleRuns(BuildTrack1)

RumbleRuns2 == BandsByIndex(BuildTrack2) /\ RumbleRuns(BuildTrack2)

\* C28: in the track an engine has built every colour band is 0 or 1 and a
\* function of the index only, and, the segments read as a cycle, every
\* maximal run of one colour has length exactly RUMBLE_LENGTH.
C28_RumbleRunsOfThree ==
  \A e \in Engines :
    eng[e].built => IF variant = 1 THEN RumbleRuns1 ELSE RumbleRuns2

\* C27: after every tick currentCorner is the cornerIndex of the segment
\* under the vehicle at the position that tick has produced.
C27_CurrentCornerAtTickEnd ==
  (obs.eng # 0 /\ ~obs.threw) =>
    obs.post.currentCorner =
      SegAt(buildTrack(variant), obs.post.position).cornerIndex

\* the autopilot's target speed in the variant loaded
TargetSpeed(curve) ==
  IF variant = 1 THEN TargetSpeed1(curve) ELSE TargetSpeed2(curve)

\* curvatures from -4.0 to 4.0 in steps of 0.125, in thousandths
Curvatures == { c * 125 : c \in -32..32 }

\* C29: the target speed the autopilot uses in a tick is non-increasing in
\* |curve|, is highest on a straight, and takes at least 4 distinct values
\* over the curvature range.
C29_TargetSpeedBands ==
  (obs.eng # 0 /\ obs.pre.demo /\ ~obs.threw) =>
    /\ \A a \in Curvatures, b \in Curvatures :
         Abs(a) <= Abs(b) => TargetSpeed(a) >= TargetSpeed(b)
    /\ \A a \in Curvatures : TargetSpeed(0) >= TargetSpeed(a)
    /\ Cardinality({ TargetSpeed(a) : a \in Curvatures }) >= 4

\* C30: in a tick the off-road penalty is applied exactly when |x| > 1.0
\* after the lateral update: the speed of the longitudinal step is then
\* multiplied by OFFROAD_DECEL (between 0.96 and 0.99) before position
\* advances by it, and is left unchanged otherwise; the penalty never
\* increases the speed and never makes it negative.
C30_OffRoadPenalty ==
  /\ OFFROAD_DECEL(variant) \in 96..99
  /\ (obs.eng # 0 /\ ~obs.threw) =>
       /\ obs.post.speed =
            IF Abs(obs.post.x) > 1000000
            THEN Scale(obs.longSpeed, OFFROAD_DECEL(variant), 100)
            ELSE obs.longSpeed
       /\ obs.advanced = obs.pre.position + obs.post.speed
       /\ obs.post.speed <= obs.longSpeed
       /\ obs.post.speed >= 0

C30_Witness ==
  /\ obs.eng # 0 /\ ~obs.threw
  /\ Abs(obs.pre.x) <= 1000000
  /\ Abs(obs.post.x) > 1000000
  /\ obs.post.speed < obs.longSpeed
  /\ obs.post.speed > 0

\* C31: in every step that begins and ends outside quiz mode, quizRound,
\* quizScore and quizCorrect are unchanged, and a quiz timeout that fires
\* in such a step leaves the map highlight of the mode as it was.
C31_QuizStateOnlyInQuizMode ==
  [][(app.mode # "quiz" /\ app'.mode # "quiz") =>
       /\ app'.quizRound = app.quizRound
       /\ app'.quizScore = app.quizScore
       /\ app'.quizCorrect = app.quizCorrect
       /\ (timers'.quiz < timers.quiz => app'.highlight = app.highlight)]_vars

\* C32: within quiz mode a timeout scheduled by handleQuizAnswer replaces
\* the question only if the question on display has been answered: a step
\* in which a timeout fires and quizRound changes starts with quizCorrect
\* null.
C32_NextQuestionAfterAnswer ==
  [][(app.mode = "quiz" /\ timers'.quiz < timers.quiz
        /\ app'.quizRound # app.quizRound) =>
       app.quizCorrect = 0]_vars

\* C33: in every reachable state 0 <= quizScore <= quizRound <=
\* quizMaxRounds, and once a click has been handled for the question on
\* display (quizCorrect is null) a further marker click changes neither
\* quizScore nor quizCorrect.
C33_ScoreWithinRounds ==
  /\ [](/\ 0 <= app.quizScore
        /\ app.quizScore <= app.quizRound
        /\ app.quizRound <= app.quizMaxRounds)
  /\ [][\A n \in MapCorners, draw \in MapCorners :
          (app.mode = "quiz" /\ app.quizCorrect = 0 /\ ClickMarker(n, draw)) =>
            /\ app'.quizScore = app.quizScore
            /\ app'.quizCorrect = app.quizCorrect]_vars

C33_Witness ==
  /\ app.mode = "quiz"
  /\ app.quizCorrect = 0
  /\ app.quizView = "question"
  /\ timers.quiz = 1
  /\ app.quizScore = app.quizRound
  /\ app.quizRound = app.quizMaxRounds

\* C34: after every completed switchMode call a walkthrough interval is
\* live if and only if the mode is walkthrough, at most one is ever live,
\* and App.walkTimer holds a handle exactly when one is live.
C34_OneWalkTimerInWalkthrough ==
  /\ (timers.walk > 0) <=> (app.mode = "walkthrough")
  /\ timers.walk <= 1
  /\ app.walkTimer <=> (timers.walk = 1)

C34_Witness ==
  /\ app.mode = "walkthrough"
  /\ timers.walk = 1
  /\ app.walkTimer
  /\ Len(eng) > 0
  /\ app.quizRound > 0

\* the input map holds no pair of opposite arrow keys
NoOppositeKeys(keys) ==
  /\ ~({"ArrowUp", "ArrowDown"} \subseteq keys)
  /\ ~({"ArrowLeft", "ArrowRight"} \subseteq keys)

\* C35: in the first variant, right after demoAI has run in a tick,
\* ArrowUp and ArrowDown are not both set and ArrowLeft and ArrowRight are
\* not both set, whatever arrow keys the input map held before the call.
C35_NoContradictoryIntents ==
  (variant = 1 /\ obs.eng # 0 /\ obs.pre.demo /\ ~obs.threw) =>
    \A held \in SUBSET Arrows :
      NoOppositeKeys(demoAI(obs.pre, buildTrack(1), held))

C35_Witness ==
  /\ variant = 1 /\ obs.eng # 0 /\ obs.pre.demo /\ ~obs.threw
  /\ "ArrowUp" \in obs.preKeys
  /\ \E k \in { demoAI(obs.pre, buildTrack(1), obs.preKeys) } :
       /\ "ArrowDown" \in k
       /\ "ArrowUp" \notin k

\* the speeds from 0 to MAX_SPEED of the first variant, in hundredths
HudSpeeds == 0..MAX_SPEED(1)

\* C36: in the first variant the gear the HUD shows is a non-decreasing
\* step function of the speed, speedToGear has six bands, and each gear
\* 1..6 is shown at some speed in [0, MAX_SPEED].
C36_SixGearsDisplayed ==
  (variant = 1 /\ obs.eng # 0 /\ ~obs.threw) =>
    /\ HudGear(obs.post.speed) \in 1..6
    /\ \A v \in HudSpeeds \ {MAX_SPEED(1)} : HudGear(v) <= HudGear(v + 1)
    /\ { speedToGear(kmh) : kmh \in 0..300 } = 1..6
    /\ \A g \in 1..6 : \E v \in HudSpeeds : HudGear(v) = g
====
